---- MODULE Spec2Model ----
(***************************************************************************)
(* Model of the broker-variable core of gcp-service-broker                 *)
(* (package broker: BrokerVariable, ToSchema, fieldNameToLabel,            *)
(* ApplyDefaults, ValidateVariables, ValidateVariablesAgainstSchema,       *)
(* CreateJsonSchema).                                                      *)
(*                                                                         *)
(* Go strings are sequences of bytes (0..255).  Go interface{} values are  *)
(* records [k, v, items]: k is the dynamic type, v the payload (the bytes  *)
(* of a string, <<n>> for an integer, <<0>>/<<1>> for a boolean) and items *)
(* the elements of a slice.  Go maps are functions over the set of keys    *)
(* that are present.                                                       *)
(***************************************************************************)
EXTENDS Integers, Sequences, FiniteSets, TLC

VARIABLES
  op,          \* the function called last ("init" before any call)
  fieldName,   \* argument of fieldNameToLabel
  label,       \* result of fieldNameToLabel
  bv,          \* receiver of BrokerVariable.Validate / BrokerVariable.ToSchema
  order,       \* order in which `range bv.Enum` visited the keys in the last ToSchema
  schema,      \* result of BrokerVariable.ToSchema
  errs,        \* result of BrokerVariable.Validate
  variables,   \* the []BrokerVariable argument of the package-level functions
  parameters,  \* the map[string]interface{} payload (mutated in place by ApplyDefaults)
  before,      \* the payload as it was when ApplyDefaults was entered
  applied,     \* ApplyDefaults calls made on the payload so far (at most MaxCalls)
  engine,      \* what gojsonschema.Validate returned in the last validation
  ret,         \* error returned by ValidateVariables
  doc          \* result of CreateJsonSchema

vars == <<op, fieldName, label, bv, order, schema, errs, variables, parameters,
          before, applied, engine, ret, doc>>

-----------------------------------------------------------------------------
(* Bounds of the model                                                     *)

MaxTokens == 3       \* tokens concatenated into a field name
MaxEnum == 3         \* keys of a BrokerVariable.Enum
MaxConstraints == 2  \* keys of a BrokerVariable.Constraints
MaxVars == 2         \* descriptors in a []BrokerVariable

-----------------------------------------------------------------------------
(* Strings                                                                 *)

\* "id", "uri", "url", "gb", "jdbc" and their replacements, as bytes
s_id == <<105, 100>>
s_uri == <<117, 114, 105>>
s_url == <<117, 114, 108>>
s_gb == <<103, 98>>
s_jdbc == <<106, 100, 98, 99>>

acronyms ==
  (s_id :> <<73, 68>>) @@ (s_uri :> <<85, 82, 73>>) @@ (s_url :> <<85, 82, 76>>)
    @@ (s_gb :> <<71, 66>>) @@ (s_jdbc :> <<74, 68, 66, 67>>)

\* utf8.DecodeRuneInString at byte i, for one- and two-byte encodings; any
\* other byte decodes to utf8.RuneError (U+FFFD) of width 1.
DecodeRune(s, i) ==
  LET b == s[i] IN
  IF b < 128 THEN [r |-> b, w |-> 1]
  ELSE IF b \in 194..223 /\ i < Len(s) /\ s[i + 1] \in 128..191
    THEN [r |-> (b - 192) * 64 + (s[i + 1] - 128), w |-> 2]
  ELSE [r |-> 65533, w |-> 1]

\* unicode.IsSpace on the runes below U+0800
IsSpace(r) == r \in {9, 10, 11, 12, 13, 32, 133, 160}

\* the predicate handed to strings.FieldsFunc
IsSeparator(r) == IsSpace(r) \/ r = 45 \/ r = 95 \/ r = 46

\* strings.FieldsFunc: start is the index at which the current field began,
\* 0 when the scan is between fields.
RECURSIVE FieldsFrom(_, _, _, _)
FieldsFrom(s, i, start, acc) ==
  IF i > Len(s)
    THEN IF start > 0 THEN Append(acc, SubSeq(s, start, Len(s))) ELSE acc
  ELSE LET d == DecodeRune(s, i) IN
    IF IsSeparator(d.r)
      THEN FieldsFrom(s, i + d.w, 0,
                      IF start > 0 THEN Append(acc, SubSeq(s, start, i - 1)) ELSE acc)
      ELSE FieldsFrom(s, i + d.w, IF start > 0 THEN start ELSE i, acc)

FieldsFunc(s) == FieldsFrom(s, 1, 0, <<>>)

\* strings.ToUpper of the one-byte string c[:1]: an ASCII letter is
\* upper-cased, a byte that is no valid UTF-8 on its own becomes U+FFFD.
ToUpperFirstByte(b) ==
  IF b < 128 THEN (IF b \in 97..122 THEN <<b - 32>> ELSE <<b>>)
  ELSE <<239, 191, 189>>

\* strings.Join
RECURSIVE Join(_, _)
Join(components, sep) ==
  IF components = <<>> THEN <<>>
  ELSE IF Len(components) = 1 THEN components[1]
  ELSE components[1] \o sep \o Join(Tail(components), sep)

MapLabel(c) ==
  IF c \in DOMAIN acronyms THEN acronyms[c]
  ELSE ToUpperFirstByte(c[1]) \o SubSeq(c, 2, Len(c))

\* mutant: the acronym table is not consulted
fieldNameToLabel_noAcronyms(name) ==
  LET components == FieldsFunc(name)
  IN Join([i \in 1..Len(components) |->
             ToUpperFirstByte(components[i][1])
               \o SubSeq(components[i], 2, Len(components[i]))], <<32>>)

fieldNameToLabel(name) ==
  LET components == FieldsFunc(name)
  IN Join([i \in 1..Len(components) |-> MapLabel(components[i])], <<32>>)

-----------------------------------------------------------------------------
(* Inputs of fieldNameToLabel                                              *)

\* "Id", "a", U+00E9, "-", "_", ".", " ", U+00A0
LabelTokens ==
  {s_id, s_uri, s_url, s_gb, s_jdbc, <<73, 100>>, <<97>>, <<195, 169>>,
   <<45>>, <<95>>, <<46>>, <<32>>, <<194, 160>>}

RECURSIVE Concats(_)
Concats(n) ==
  IF n = 0 THEN {<<>>}
  ELSE LET shorter == Concats(n - 1)
       IN shorter \cup {s \o t : s \in shorter, t \in LabelTokens}

FieldNames == Concats(MaxTokens)

-----------------------------------------------------------------------------
(* interface{} values                                                      *)

Nil == [k |-> "nil", v |-> <<>>, items |-> <<>>]
IntVal(n) == [k |-> "int", v |-> <<n>>, items |-> <<>>]
StrVal(s) == [k |-> "string", v |-> s, items |-> <<>>]
BoolVal(b) == [k |-> "bool", v |-> IF b THEN <<1>> ELSE <<0>>, items |-> <<>>]
SliceVal(xs) == [k |-> "slice", v |-> <<>>, items |-> xs]

EmptyMap == [x \in {} |-> Nil]

\* the JsonType constants, and a type name that is none of them ("bogus")
JsonTypeString == <<115, 116, 114, 105, 110, 103>>
JsonTypeNumeric == <<110, 117, 109, 98, 101, 114>>
JsonTypeInteger == <<105, 110, 116, 101, 103, 101, 114>>
JsonTypeBoolean == <<98, 111, 111, 108, 101, 97, 110>>
t_bogus == <<98, 111, 103, 117, 115>>

\* strconv formatting of an integer in base 10
RECURSIVE Decimal(_)
Decimal(n) ==
  IF n < 0 THEN <<45>> \o Decimal(0 - n)
  ELSE IF n < 10 THEN <<48 + n>>
  ELSE Decimal(n \div 10) \o <<48 + (n % 10)>>

\* fmt.Sprintf("%v", x)
Sprintf(x) ==
  CASE x.k = "int" -> Decimal(x.v[1])
    [] x.k = "string" -> x.v
    [] x.k = "bool" -> IF x.v = <<1>> THEN <<116, 114, 117, 101>>
                       ELSE <<102, 97, 108, 115, 101>>
    [] OTHER -> <<60, 110, 105, 108, 62>>

\* Go's < on strings: byte-wise lexicographic order
RECURSIVE StrLess(_, _)
StrLess(a, b) ==
  IF b = <<>> THEN FALSE
  ELSE IF a = <<>> THEN TRUE
  ELSE IF a[1] # b[1] THEN a[1] < b[1]
  ELSE StrLess(Tail(a), Tail(b))

\* mutant: the enumeration is ordered by the values themselves, numbers by
\* magnitude and before everything else
EnumLess_byValue(x, y) ==
  IF x.k = "int" /\ y.k = "int" THEN x.v[1] < y.v[1]
  ELSE IF x.k = "int" \/ y.k = "int" THEN x.k = "int"
  ELSE StrLess(Sprintf(x), Sprintf(y))

\* the less function handed to sort.Slice
EnumLess(x, y) == StrLess(Sprintf(x), Sprintf(y))

Swap(xs, i, j) == [xs EXCEPT ![i] = xs[j], ![j] = xs[i]]

\* sort.Slice on a slice of fewer than 7 elements is an insertion sort
RECURSIVE SinkLeft(_, _)
SinkLeft(xs, j) ==
  IF j > 1 /\ EnumLess(xs[j], xs[j - 1]) THEN SinkLeft(Swap(xs, j, j - 1), j - 1)
  ELSE xs

RECURSIVE InsertionSortFrom(_, _)
InsertionSortFrom(xs, i) ==
  IF i > Len(xs) THEN xs ELSE InsertionSortFrom(SinkLeft(xs, i), i + 1)

SortSlice(xs) == InsertionSortFrom(xs, 2)

-----------------------------------------------------------------------------
(* BrokerVariable                                                          *)

\* keys of the schema fragment (package validation)
KeyTitle == "title"
KeyEnum == "enum"
KeyDescription == "description"
KeyType == "type"
KeyDefault == "default"

\* mutant: the constraints are merged last
ToSchema_constraintsLast(b, keyOrder) ==
  LET s1 == IF b.FieldName # <<>>
              THEN (KeyTitle :> StrVal(fieldNameToLabel(b.FieldName))) ELSE EmptyMap
      s2 == IF Len(keyOrder) > 0
              THEN (KeyEnum :> SliceVal(SortSlice(keyOrder))) @@ s1 ELSE s1
      s3 == IF b.Details # <<>> THEN (KeyDescription :> StrVal(b.Details)) @@ s2 ELSE s2
      s4 == IF b.Type # <<>> THEN (KeyType :> StrVal(b.Type)) @@ s3 ELSE s3
      s5 == IF b.Default # Nil THEN (KeyDefault :> b.Default) @@ s4 ELSE s4
  IN b.Constraints @@ s5

\* BrokerVariable.ToSchema; keyOrder is the order in which `range bv.Enum`
\* yields the keys (len(bv.Enum) = Len(keyOrder)).  f @@ g keeps f's value on
\* a shared key, so each step overwrites what the earlier steps set.
ToSchema(b, keyOrder) ==
  LET s1 == IF b.FieldName # <<>>
              THEN (KeyTitle :> StrVal(fieldNameToLabel(b.FieldName))) ELSE EmptyMap
      s2 == b.Constraints @@ s1
      s3 == IF Len(keyOrder) > 0
              THEN (KeyEnum :> SliceVal(SortSlice(keyOrder))) @@ s2 ELSE s2
      s4 == IF b.Details # <<>> THEN (KeyDescription :> StrVal(b.Details)) @@ s3 ELSE s3
      s5 == IF b.Type # <<>> THEN (KeyType :> StrVal(b.Type)) @@ s4 ELSE s4
  IN IF b.Default # Nil THEN (KeyDefault :> b.Default) @@ s5 ELSE s5

\* strings.TrimSpace(value) == ""
IsBlank(s) == \A i \in 1..Len(s) : IsSpace(s[i])

\* validation.ErrIfBlank: nil (<<>>) or one BlankField error
ErrIfBlank(value, field) ==
  IF IsBlank(value) THEN <<[kind |-> "BlankField", field |-> field]>> ELSE <<>>

\* validation.ErrIfNotJSONSchemaType: nil (<<>>) or one InvalidSchemaType error
ErrIfNotJSONSchemaType(value, field) ==
  IF value \in {JsonTypeString, JsonTypeNumeric, JsonTypeInteger, JsonTypeBoolean}
    THEN <<>>
  ELSE <<[kind |-> "InvalidSchemaType", field |-> field]>>

\* (*FieldError).Also: the non-nil errors, in argument order
Also(e1, e2, e3) == e1 \o e2 \o e3

\* mutant: the checks stop at the first error
Validate_firstOnly(b) ==
  LET all == Also(ErrIfBlank(b.FieldName, "field_name"),
                  ErrIfNotJSONSchemaType(b.Type, "type"),
                  ErrIfBlank(b.Details, "details"))
  IN IF all = <<>> THEN <<>> ELSE <<all[1]>>

\* BrokerVariable.Validate
Validate(b) ==
  Also(ErrIfBlank(b.FieldName, "field_name"),
       ErrIfNotJSONSchemaType(b.Type, "type"),
       ErrIfBlank(b.Details, "details"))


-----------------------------------------------------------------------------
(* ApplyDefaults                                                           *)

\* mutant: a default also replaces a value that is already present
RECURSIVE ApplyDefaults_overwriteFrom(_, _, _)
ApplyDefaults_overwriteFrom(params, vs, i) ==
  IF i > Len(vs) THEN params
  ELSE ApplyDefaults_overwriteFrom(
         IF vs[i].Default # Nil
           THEN (vs[i].FieldName :> vs[i].Default) @@ params ELSE params,
         vs, i + 1)

ApplyDefaults_overwrite(params, vs) == ApplyDefaults_overwriteFrom(params, vs, 1)

\* mutant: the loop is left after the first default it has set
RECURSIVE ApplyDefaults_firstOnlyFrom(_, _, _)
ApplyDefaults_firstOnlyFrom(params, vs, i) ==
  IF i > Len(vs) THEN params
  ELSE IF vs[i].FieldName \notin DOMAIN params /\ vs[i].Default # Nil
    THEN (vs[i].FieldName :> vs[i].Default) @@ params
  ELSE ApplyDefaults_firstOnlyFrom(params, vs, i + 1)

ApplyDefaults_firstOnly(params, vs) == ApplyDefaults_firstOnlyFrom(params, vs, 1)

\* the loop of ApplyDefaults from descriptor i on
RECURSIVE ApplyDefaultsFrom(_, _, _)
ApplyDefaultsFrom(params, vs, i) ==
  IF i > Len(vs) THEN params
  ELSE ApplyDefaultsFrom(
         IF vs[i].FieldName \notin DOMAIN params /\ vs[i].Default # Nil
           THEN (vs[i].FieldName :> vs[i].Default) @@ params ELSE params,
         vs, i + 1)

\* ApplyDefaults: the payload as the call leaves it
ApplyDefaults(params, vs) == ApplyDefaultsFrom(params, vs, 1)

-----------------------------------------------------------------------------
(* CreateJsonSchema                                                        *)

\* "http://json-schema.org/draft-04/schema#" and "object"
s_draft04 ==
  <<104, 116, 116, 112, 58, 47, 47, 106, 115, 111, 110, 45, 115,
    99, 104, 101, 109, 97, 46, 111, 114, 103, 47, 100, 114, 97,
    102, 116, 45, 48, 52, 47, 115, 99, 104, 101, 109, 97, 35>>
s_object == <<111, 98, 106, 101, 99, 116>>

\* properties[variable.FieldName] = variable.ToSchema() for every variable in
\* turn: the last descriptor of a name wins
RECURSIVE PropertiesFrom(_, _, _, _)
PropertiesFrom(props, vs, keyOrders, i) ==
  IF i > Len(vs) THEN props
  ELSE PropertiesFrom((vs[i].FieldName :> ToSchema(vs[i], keyOrders[i])) @@ props,
                      vs, keyOrders, i + 1)

\* the utils.StringSet after the loop
RequiredSet(vs) == {vs[i].FieldName : i \in {j \in 1..Len(vs) : vs[j].Required}}

\* utils.StringSet.ToSlice: the members, each once, in ascending order
ToSlice(set) ==
  CHOOSE s \in [1..Cardinality(set) -> set] :
    /\ {s[i] : i \in 1..Cardinality(set)} = set
    /\ \A i \in 1..Cardinality(set) - 1 : StrLess(s[i], s[i + 1])

\* mutant: every field name is put into the required set
CreateJsonSchema_allRequired(vs, keyOrders) ==
  ("$schema" :> StrVal(s_draft04)) @@ ("type" :> StrVal(s_object))
    @@ ("properties" :> PropertiesFrom(EmptyMap, vs, keyOrders, 1))
    @@ (IF vs # <<>>
          THEN ("required" :> ToSlice({vs[i].FieldName : i \in 1..Len(vs)}))
          ELSE EmptyMap)

\* mutant: the required set is never emitted
CreateJsonSchema_noRequired(vs, keyOrders) ==
  ("$schema" :> StrVal(s_draft04)) @@ ("type" :> StrVal(s_object))
    @@ ("properties" :> PropertiesFrom(EmptyMap, vs, keyOrders, 1))

\* mutant: the document forbids undeclared keys
CreateJsonSchema_closed(vs, keyOrders) ==
  ("$schema" :> StrVal(s_draft04)) @@ ("type" :> StrVal(s_object))
    @@ ("properties" :> PropertiesFrom(EmptyMap, vs, keyOrders, 1))
    @@ ("additionalProperties" :> BoolVal(FALSE))
    @@ (IF RequiredSet(vs) # {}
          THEN ("required" :> ToSlice(RequiredSet(vs))) ELSE EmptyMap)

\* CreateJsonSchema; keyOrders[i] is the order in which the i-th descriptor's
\* ToSchema ranges over its Enum
CreateJsonSchema(vs, keyOrders) ==
  ("$schema" :> StrVal(s_draft04)) @@ ("type" :> StrVal(s_object))
    @@ ("properties" :> PropertiesFrom(EmptyMap, vs, keyOrders, 1))
    @@ (IF RequiredSet(vs) # {}
          THEN ("required" :> ToSlice(RequiredSet(vs))) ELSE EmptyMap)

-----------------------------------------------------------------------------
(* The validation engine (gojsonschema, JSON Schema draft-04): the keywords *)
(* required, properties, additionalProperties, type and enum.               *)

\* names of the primitive types a schema may use: array, null, object and
\* the four JsonType constants
s_array == <<97, 114, 114, 97, 121>>
s_null == <<110, 117, 108, 108>>
JsonSchemaTypes ==
  {s_array, s_null, s_object, JsonTypeString, JsonTypeNumeric, JsonTypeInteger,
   JsonTypeBoolean}

\* the schema cannot be compiled: a fragment's type is no primitive type
SchemaInvalid(document) ==
  \E f \in DOMAIN document["properties"] :
    LET frag == document["properties"][f]
    IN KeyType \in DOMAIN frag
         /\ ~(frag[KeyType].k = "string" /\ frag[KeyType].v \in JsonSchemaTypes)

\* does value x have the primitive type named t
HasType(x, t) ==
  CASE t = JsonTypeInteger -> x.k = "int"
    [] t = JsonTypeNumeric -> x.k = "int"
    [] t = JsonTypeString -> x.k = "string"
    [] t = JsonTypeBoolean -> x.k = "bool"
    [] t = s_null -> x.k = "nil"
    [] t = s_array -> x.k = "slice"
    [] OTHER -> FALSE

\* the violations of one property value against its fragment
PropertyErrors(f, x, frag) ==
  (IF KeyType \in DOMAIN frag /\ ~HasType(x, frag[KeyType].v)
     THEN <<[type |-> "invalid_type", field |-> f]>> ELSE <<>>)
  \o (IF KeyEnum \in DOMAIN frag
           /\ ~(\E i \in 1..Len(frag[KeyEnum].items) : frag[KeyEnum].items[i] = x)
        THEN <<[type |-> "enum", field |-> f]>> ELSE <<>>)

RECURSIVE Flatten(_)
Flatten(seqs) == IF seqs = <<>> THEN <<>> ELSE seqs[1] \o Flatten(Tail(seqs))

\* gojsonschema.Validate: err is "" (nil) or the engine's error; errors are
\* the violations (result.Errors())
GoJsonSchemaValidate(document, params) ==
  IF SchemaInvalid(document) THEN [err |-> "invalid schema", errors |-> <<>>]
  ELSE
    LET req == IF "required" \in DOMAIN document THEN document["required"] ELSE <<>>
        present == DOMAIN params
        declared == ToSlice(present \cap DOMAIN document["properties"])
        undeclared == ToSlice(present \ DOMAIN document["properties"])
        missing == Flatten([i \in 1..Len(req) |->
                     IF req[i] \in present THEN <<>>
                     ELSE <<[type |-> "required", field |-> req[i]]>>])
        extra == IF "additionalProperties" \in DOMAIN document
                      /\ document["additionalProperties"] = BoolVal(FALSE)
                   THEN [i \in 1..Len(undeclared) |->
                           [type |-> "additional_property_not_allowed",
                            field |-> undeclared[i]]]
                   ELSE <<>>
        props == Flatten([i \in 1..Len(declared) |->
                   PropertyErrors(declared[i], params[declared[i]],
                                  document["properties"][declared[i]])])
    IN [err |-> "", errors |-> missing \o extra \o props]

\* ResultError.String(): the field and the kind of the violation
ResultErrorString(r) == <<r.field, r.type>>

-----------------------------------------------------------------------------
(* ValidateVariables, ValidateVariablesAgainstSchema                       *)

NilError == [err |-> "", msgs |-> <<>>]

\* mutant: an engine failure is folded into the aggregate
ValidateVariablesAgainstSchema_mergeEngine(params, document) ==
  LET result == GoJsonSchemaValidate(document, params)
  IN IF result.err = "" /\ Len(result.errors) = 0 THEN NilError
     ELSE [err |-> "multierror",
           msgs |-> (IF result.err # "" THEN <<result.err>> ELSE <<>>)
                      \o [i \in 1..Len(result.errors) |->
                            ResultErrorString(result.errors[i])]]

\* ValidateVariablesAgainstSchema: nil, the engine's error, or a
\* multierror.Error holding one message per violation
ValidateVariablesAgainstSchema(params, document) ==
  LET result == GoJsonSchemaValidate(document, params)
  IN IF result.err # "" THEN [err |-> result.err, msgs |-> <<>>]
     ELSE IF Len(result.errors) = 0 THEN NilError
     ELSE [err |-> "multierror",
           msgs |-> [i \in 1..Len(result.errors) |->
                       ResultErrorString(result.errors[i])]]

ValidateVariables(params, vs, keyOrders) ==
  ValidateVariablesAgainstSchema(params, CreateJsonSchema(vs, keyOrders))


-----------------------------------------------------------------------------
(* Inputs                                                                  *)

\* the orders in which a range over a map with key set S can yield the keys
Perms(S) ==
  {s \in [1..Cardinality(S) -> S] :
     \A i, j \in 1..Cardinality(S) : i # j => s[i] # s[j]}

Descriptor(required, name, type, details, default, enum, constraints) ==
  [Required |-> required, FieldName |-> name, Type |-> type, Details |-> details,
   Default |-> default, Enum |-> enum, Constraints |-> constraints]

\* Enum keys 9, 10, "10" and "a"; every key carries the friendly name "n"
EnumKeys == {IntVal(9), IntVal(10), StrVal(<<49, 48>>), StrVal(<<97>>)}
Enums ==
  {[key \in S |-> <<110>>] : S \in {T \in SUBSET EnumKeys : Cardinality(T) <= MaxEnum}}

ConstraintKeys == {KeyTitle, KeyEnum, KeyDescription, KeyType, KeyDefault, "minimum"}
ConstraintValue(key) ==
  CASE key = KeyTitle -> StrVal(<<84>>)
    [] key = KeyEnum -> SliceVal(<<StrVal(<<122>>)>>)
    [] key = KeyDescription -> StrVal(<<99>>)
    [] key = KeyType -> StrVal(JsonTypeString)
    [] key = KeyDefault -> IntVal(7)
    [] OTHER -> IntVal(1)
ConstraintMaps ==
  {[key \in S |-> ConstraintValue(key)] :
     S \in {T \in SUBSET ConstraintKeys : Cardinality(T) <= MaxConstraints}}

\* receivers of Validate and ToSchema: FieldName "", " " or "a_id"; Type "",
\* "integer" or "bogus"; Details "", " " or "d"; Default nil or 10
BrokerVariables ==
  {Descriptor(FALSE, name, type, details, default, enum, constraints) :
     name \in {<<>>, <<32>>, <<97, 95, 105, 100>>},
     type \in {<<>>, JsonTypeInteger, t_bogus},
     details \in {<<>>, <<32>>, <<100>>},
     default \in {Nil, IntVal(10)},
     enum \in Enums,
     constraints \in ConstraintMaps}

\* descriptors of the payload functions: fields "a" and "b" of type integer,
\* required or not, with Default nil, 10 or "x"; a field "b" of an unknown
\* type; a field "a" restricted to the value 10
PayloadVariables ==
  {Descriptor(required, <<97>>, JsonTypeInteger, <<100>>, default, EmptyMap, EmptyMap) :
     required \in BOOLEAN, default \in {Nil, IntVal(10), StrVal(<<120>>)}}
  \cup
  {Descriptor(required, <<98>>, JsonTypeInteger, <<100>>, default, EmptyMap, EmptyMap) :
     required \in BOOLEAN, default \in {Nil, IntVal(10)}}
  \cup
  {Descriptor(TRUE, <<98>>, t_bogus, <<100>>, Nil, EmptyMap, EmptyMap),
   Descriptor(FALSE, <<97>>, JsonTypeInteger, <<100>>, Nil,
              [key \in {IntVal(10)} |-> <<110>>], EmptyMap)}

VariableLists == UNION {[1..n -> PayloadVariables] : n \in 0..MaxVars}

\* payloads over the keys "a", "b" and "x" ("x" is no descriptor's field)
Payloads ==
  {a @@ b @@ x :
     a \in {EmptyMap, <<97>> :> Nil, <<97>> :> IntVal(0)},
     b \in {EmptyMap, <<98>> :> IntVal(0)},
     x \in {EmptyMap, <<120>> :> IntVal(0)}}

\* one key order per descriptor
KeyOrders(vs) ==
  {ko \in [1..Len(vs) -> UNION {Perms(DOMAIN vs[i].Enum) : i \in 1..Len(vs)}] :
     \A i \in 1..Len(vs) : ko[i] \in Perms(DOMAIN vs[i].Enum)}

NoResult == [err |-> "", errors |-> <<>>]
NoVariable == Descriptor(FALSE, <<>>, <<>>, <<>>, Nil, EmptyMap, EmptyMap)

-----------------------------------------------------------------------------
(* fieldNameToLabel as a program: one call on a chosen field name          *)

InitLabel ==
  /\ op = "init"
  /\ fieldName \in FieldNames
  /\ label = <<>>
  /\ bv = NoVariable /\ order = <<>> /\ schema = EmptyMap /\ errs = <<>>
  /\ variables = <<>> /\ parameters = EmptyMap /\ before = EmptyMap
  /\ applied = 0 /\ engine = NoResult /\ ret = NilError /\ doc = EmptyMap

CallFieldNameToLabel ==
  /\ op' = "fieldNameToLabel"
  /\ label' = fieldNameToLabel(fieldName)
  /\ UNCHANGED <<fieldName, bv, order, schema, errs, variables, parameters, before,
                 applied, engine, ret, doc>>

NextLabel == CallFieldNameToLabel

SpecLabel == InitLabel /\ [][NextLabel]_vars

-----------------------------------------------------------------------------
(* BrokerVariable methods on a chosen descriptor                           *)

InitVar ==
  /\ op = "init"
  /\ bv \in BrokerVariables
  /\ order = <<>> /\ schema = EmptyMap /\ errs = <<>>
  /\ fieldName = <<>> /\ label = <<>>
  /\ variables = <<>> /\ parameters = EmptyMap /\ before = EmptyMap
  /\ applied = 0 /\ engine = NoResult /\ ret = NilError /\ doc = EmptyMap

CallValidate ==
  /\ op' = "Validate"
  /\ errs' = Validate(bv)
  /\ order' = <<>> /\ schema' = EmptyMap
  /\ UNCHANGED <<fieldName, label, bv, variables, parameters, before, applied,
                 engine, ret, doc>>

CallToSchema ==
  \E keyOrder \in Perms(DOMAIN bv.Enum) :
    /\ op' = "ToSchema"
    /\ order' = keyOrder
    /\ schema' = ToSchema(bv, keyOrder)
    /\ errs' = <<>>
    /\ UNCHANGED <<fieldName, label, bv, variables, parameters, before, applied,
                   engine, ret, doc>>

NextVar == CallValidate \/ CallToSchema

SpecVar == InitVar /\ [][NextVar]_vars

-----------------------------------------------------------------------------
(* The payload functions on a chosen payload and descriptor list           *)

MaxCalls == 2   \* ApplyDefaults calls counted in `applied`

Init ==
  /\ op = "init"
  /\ variables \in VariableLists
  /\ parameters \in Payloads
  /\ before = EmptyMap /\ applied = 0
  /\ engine = NoResult /\ ret = NilError /\ doc = EmptyMap
  /\ fieldName = <<>> /\ label = <<>>
  /\ bv = NoVariable /\ order = <<>> /\ schema = EmptyMap /\ errs = <<>>

CallApplyDefaults ==
  /\ applied < MaxCalls
  /\ op' = "ApplyDefaults"
  /\ before' = parameters
  /\ parameters' = ApplyDefaults(parameters, variables)
  /\ applied' = applied + 1
  /\ engine' = NoResult /\ ret' = NilError /\ doc' = EmptyMap
  /\ UNCHANGED <<fieldName, label, bv, order, schema, errs, variables>>

CallValidateVariables ==
  \E keyOrders \in KeyOrders(variables) :
    /\ op' = "ValidateVariables"
    /\ engine' = GoJsonSchemaValidate(CreateJsonSchema(variables, keyOrders), parameters)
    /\ ret' = ValidateVariables(parameters, variables, keyOrders)
    /\ doc' = EmptyMap
    /\ UNCHANGED <<fieldName, label, bv, order, schema, errs, variables, parameters,
                   before, applied>>

CallCreateJsonSchema ==
  \E keyOrders \in KeyOrders(variables) :
    /\ op' = "CreateJsonSchema"
    /\ doc' = CreateJsonSchema(variables, keyOrders)
    /\ engine' = NoResult /\ ret' = NilError
    /\ UNCHANGED <<fieldName, label, bv, order, schema, errs, variables, parameters,
                   before, applied>>

Next == CallApplyDefaults \/ CallValidateVariables \/ CallCreateJsonSchema

Spec == Init /\ [][Next]_vars


-----------------------------------------------------------------------------
(* Properties                                                              *)

\* the byte positions of s that belong to a separator: ASCII white space,
\* '-', '_', '.', and the two bytes of U+0085 and U+00A0
SeparatorBytes(s) ==
  {i \in 1..Len(s) :
     \/ s[i] \in {9, 10, 11, 12, 13, 32, 45, 95, 46}
     \/ s[i] = 194 /\ i < Len(s) /\ s[i + 1] \in {133, 160}
     \/ i > 1 /\ s[i - 1] = 194 /\ s[i] \in {133, 160}}

\* the maximal runs of non-separator bytes, left to right
ComponentSpans(s) ==
  {span \in (1..Len(s)) \X (1..Len(s)) :
     /\ span[1] <= span[2]
     /\ \A i \in span[1]..span[2] : i \notin SeparatorBytes(s)
     /\ span[1] = 1 \/ span[1] - 1 \in SeparatorBytes(s)
     /\ span[2] = Len(s) \/ span[2] + 1 \in SeparatorBytes(s)}

ComponentsOf(s) ==
  LET spans == ComponentSpans(s)
      n == Cardinality(spans)
      inOrder == CHOOSE q \in [1..n -> spans] :
                   \A i \in 1..n - 1 : q[i][2] < q[i + 1][1]
  IN [i \in 1..n |-> SubSeq(s, inOrder[i][1], inOrder[i][2])]

AcronymWords == {s_id, s_uri, s_url, s_gb, s_jdbc}
UpperAscii(s) == [i \in 1..Len(s) |-> IF s[i] \in 97..122 THEN s[i] - 32 ELSE s[i]]
LowerAscii(s) == [i \in 1..Len(s) |-> IF s[i] \in 65..90 THEN s[i] + 32 ELSE s[i]]

\* a component with its first character upper-cased (unicode.ToUpper on the
\* first rune, for one- and two-byte characters)
UpperFirstCharacter(c) ==
  LET d == DecodeRune(c, 1)
      up == IF d.r \in 97..122 \/ (d.r \in 224..254 /\ d.r # 247) THEN d.r - 32
            ELSE d.r
  IN (IF d.w = 1 THEN <<up>> ELSE <<192 + (up \div 64), 128 + (up % 64)>>)
       \o SubSeq(c, d.w + 1, Len(c))

LabelAsClaimed(c) ==
  IF LowerAscii(c) \in AcronymWords THEN UpperAscii(LowerAscii(c))
  ELSE UpperFirstCharacter(c)

LabelExact(c) ==
  IF c \in AcronymWords THEN UpperAscii(c)
  ELSE ToUpperFirstByte(c[1]) \o SubSeq(c, 2, Len(c))

\* C7 as stated: the label is the components of the field name (split on
\* runs of white space, '-', '_', '.'; empty components dropped) joined by
\* single spaces, a component that matches id, uri, url, gb or jdbc
\* case-insensitively replaced by the canonical acronym and every other
\* component with its first character upper-cased.
C7_LabelCaseInsensitive ==
  op = "fieldNameToLabel" =>
    LET cs == ComponentsOf(fieldName)
    IN label = Join([i \in 1..Len(cs) |-> LabelAsClaimed(cs[i])], <<32>>)

\* C7 amended: as above, but a component is replaced by the canonical
\* acronym only when it equals id, uri, url, gb or jdbc exactly (lower case),
\* and every other component has its first byte passed through
\* strings.ToUpper (an ASCII letter is upper-cased; the first byte of a
\* non-ASCII character becomes U+FFFD); an empty or separators-only name
\* yields the empty string.
C7_LabelExactMatch ==
  /\ op = "fieldNameToLabel" =>
       LET cs == ComponentsOf(fieldName)
       IN label = Join([i \in 1..Len(cs) |-> LabelExact(cs[i])], <<32>>)
  /\ op = "fieldNameToLabel" /\ ComponentsOf(fieldName) = <<>> => label = <<>>

\* "jdbc_url" has been turned into "JDBC URL"
C7_Witness ==
  /\ op = "fieldNameToLabel"
  /\ fieldName = <<106, 100, 98, 99, 95, 117, 114, 108>>
  /\ label = <<74, 68, 66, 67, 32, 85, 82, 76>>

\* empty or white space
BlankString(s) == \A i \in 1..Len(s) : s[i] \in {9, 10, 11, 12, 13, 32}
\* how often Validate reported the error
Reported(kind, field) ==
  Cardinality({i \in 1..Len(errs) : errs[i] = [kind |-> kind, field |-> field]})

\* C8: Validate reports a BlankField error for field_name exactly when
\* FieldName is empty or white space, a BlankField error for details exactly
\* when Details is empty or white space, and an InvalidSchemaType error for
\* type exactly when Type is none of string, number, integer, boolean; each
\* is reported once whatever the other two fields are, and a descriptor
\* with no defect yields no error.
C8_ValidateReportsAll ==
  op = "Validate" =>
    /\ Reported("BlankField", "field_name") = IF BlankString(bv.FieldName) THEN 1 ELSE 0
    /\ Reported("BlankField", "details") = IF BlankString(bv.Details) THEN 1 ELSE 0
    /\ Reported("InvalidSchemaType", "type") =
         IF bv.Type \in {JsonTypeString, JsonTypeNumeric, JsonTypeInteger, JsonTypeBoolean}
           THEN 0 ELSE 1
    /\ Len(errs) = Reported("BlankField", "field_name") + Reported("BlankField", "details")
                     + Reported("InvalidSchemaType", "type")

\* a descriptor with all three defects has been validated: three errors
C8_Witness ==
  /\ op = "Validate"
  /\ BlankString(bv.FieldName) /\ BlankString(bv.Details) /\ bv.Type = t_bogus
  /\ Len(errs) = 3

\* what the merge order title <- constraints <- enum <- description <- type
\* <- default leaves under a key that a descriptor field of its own can set
OwnOrConstraint(key, hasOwn, own) ==
  IF hasOwn THEN key \in DOMAIN schema /\ schema[key] = own
  ELSE IF key \in DOMAIN bv.Constraints
    THEN key \in DOMAIN schema /\ schema[key] = bv.Constraints[key]
  ELSE key \notin DOMAIN schema

\* C5: in the fragment a constraint keyed title replaces the generated
\* title; a constraint keyed enum, description, type or default is
\* overwritten by the descriptor's Enum, Details, Type or Default when that
\* field is non-empty / non-nil and survives unchanged otherwise; every
\* other constraint is copied, and the fragment has no further key.
C5_MergeOrder ==
  op = "ToSchema" =>
    /\ IF KeyTitle \in DOMAIN bv.Constraints
         THEN KeyTitle \in DOMAIN schema /\ schema[KeyTitle] = bv.Constraints[KeyTitle]
         ELSE IF bv.FieldName # <<>>
           THEN KeyTitle \in DOMAIN schema
                  /\ schema[KeyTitle] = StrVal(fieldNameToLabel(bv.FieldName))
         ELSE KeyTitle \notin DOMAIN schema
    /\ IF DOMAIN bv.Enum # {}
         THEN KeyEnum \in DOMAIN schema /\ schema[KeyEnum].k = "slice"
                /\ (KeyEnum \in DOMAIN bv.Constraints
                      => schema[KeyEnum] # bv.Constraints[KeyEnum])
         ELSE OwnOrConstraint(KeyEnum, FALSE, Nil)
    /\ OwnOrConstraint(KeyDescription, bv.Details # <<>>, StrVal(bv.Details))
    /\ OwnOrConstraint(KeyType, bv.Type # <<>>, StrVal(bv.Type))
    /\ OwnOrConstraint(KeyDefault, bv.Default # Nil, bv.Default)
    /\ \A key \in DOMAIN bv.Constraints
            \ {KeyTitle, KeyEnum, KeyDescription, KeyType, KeyDefault} :
         key \in DOMAIN schema /\ schema[key] = bv.Constraints[key]
    /\ DOMAIN schema \subseteq
         DOMAIN bv.Constraints
           \cup {KeyTitle, KeyEnum, KeyDescription, KeyType, KeyDefault}

\* a descriptor with constraints keyed title and type, a FieldName and a
\* Type: the constraint's title and the descriptor's type are in the fragment
C5_Witness ==
  /\ op = "ToSchema"
  /\ DOMAIN bv.Constraints = {KeyTitle, KeyType}
  /\ bv.FieldName = <<97, 95, 105, 100>> /\ bv.Type = JsonTypeInteger
  /\ schema[KeyTitle] = StrVal(<<84>>)
  /\ schema[KeyType] = StrVal(JsonTypeInteger)

\* C6: for a non-empty Enum the enum list holds exactly the keys of Enum,
\* each once, in ascending order of their string forms; with an empty Enum
\* the fragment has an enum keyword only if a constraint supplies it.
C6_EnumSorted ==
  op = "ToSchema" =>
    IF DOMAIN bv.Enum # {}
      THEN /\ KeyEnum \in DOMAIN schema
           /\ LET items == schema[KeyEnum].items
              IN /\ Len(items) = Cardinality(DOMAIN bv.Enum)
                 /\ {items[i] : i \in 1..Len(items)} = DOMAIN bv.Enum
                 /\ \A i \in 1..Len(items) - 1 :
                      ~StrLess(Sprintf(items[i + 1]), Sprintf(items[i]))
      ELSE KeyEnum \in DOMAIN schema =>
             /\ KeyEnum \in DOMAIN bv.Constraints
             /\ schema[KeyEnum] = bv.Constraints[KeyEnum]

\* the keys came out of the map as 9, "10", 10 and 9 ends up last
C6_Witness ==
  /\ op = "ToSchema"
  /\ order = <<IntVal(9), StrVal(<<49, 48>>), IntVal(10)>>
  /\ schema[KeyEnum].items[3] = IntVal(9)


\* the fields that have a Required descriptor carrying a non-nil Default
DefaultedRequired ==
  {variables[i].FieldName :
     i \in {j \in 1..Len(variables) :
              variables[j].Required /\ variables[j].Default # Nil}}

\* every Default passes the schema fragment of its field: the payload's only
\* possible defect is a missing field
DefaultsConform ==
  \A keyOrders \in KeyOrders(variables) :
    LET document == CreateJsonSchema(variables, keyOrders)
    IN /\ ~SchemaInvalid(document)
       /\ \A i \in 1..Len(variables) :
            variables[i].Default # Nil =>
              PropertyErrors(variables[i].FieldName, variables[i].Default,
                             document["properties"][variables[i].FieldName]) = <<>>

\* validating payload p reports nothing but missing required fields that
\* have a Required descriptor with a Default
OnlyDefaultableMissing(p) ==
  \A keyOrders \in KeyOrders(variables) :
    LET r == ValidateVariables(p, variables, keyOrders)
    IN \A i \in 1..Len(r.msgs) :
         r.msgs[i][2] = "required" /\ r.msgs[i][1] \in DefaultedRequired

\* C1: ValidateVariables returns an error when the payload lacks the field
\* of a Required descriptor; once ApplyDefaults has run it reports no
\* missing required field that has a Required descriptor with a non-nil
\* Default, and a payload whose only defect was such missing fields, with
\* conforming defaults, validates.
C1_RequiredAndDefaults ==
  op = "ValidateVariables" =>
    /\ (\E i \in 1..Len(variables) :
          variables[i].Required /\ variables[i].FieldName \notin DOMAIN parameters)
         => ret # NilError
    /\ applied >= 1 =>
         /\ \A i \in 1..Len(ret.msgs) :
              ~(ret.msgs[i][2] = "required" /\ ret.msgs[i][1] \in DefaultedRequired)
         /\ \A i \in 1..Len(engine.errors) :
              ~(engine.errors[i].type = "required"
                  /\ engine.errors[i].field \in DefaultedRequired)
         /\ OnlyDefaultableMissing(before) /\ DefaultsConform => ret = NilError

\* payload {"x": 0} with required fields a and b, both defaulting to 10: it
\* did not validate, ApplyDefaults ran, and now it validates
C1_Witness ==
  /\ op = "ValidateVariables" /\ applied = 1 /\ ret = NilError
  /\ DefaultedRequired = {<<97>>, <<98>>}
  /\ DOMAIN before = {<<120>>}
  /\ \A keyOrders \in KeyOrders(variables) :
       ValidateVariables(before, variables, keyOrders).err = "multierror"

\* C2: ApplyDefaults keeps every key that was present with its value, adds
\* exactly the keys that were absent and have a descriptor with a non-nil
\* Default, removes none, and leaves the descriptors unchanged.
C2_OnlyAddsKeys ==
  [][op' = "ApplyDefaults" =>
       /\ \A key \in DOMAIN parameters :
            key \in DOMAIN parameters' /\ parameters'[key] = parameters[key]
       /\ DOMAIN parameters' \ DOMAIN parameters =
            {variables[i].FieldName :
               i \in {j \in 1..Len(variables) : variables[j].Default # Nil}}
              \ DOMAIN parameters
       /\ variables' = variables]_vars

\* "a" was present with the value null and has a Default, "b" was absent:
\* "a" is still null and "b" has been added
C2_Witness ==
  /\ op = "ApplyDefaults"
  /\ <<97>> \in DOMAIN before /\ before[<<97>>] = Nil /\ parameters[<<97>>] = Nil
  /\ \E i \in 1..Len(variables) :
       variables[i].FieldName = <<97>> /\ variables[i].Default # Nil
  /\ <<98>> \notin DOMAIN before /\ <<98>> \in DOMAIN parameters

\* C3: ValidateVariables returns nil exactly when the engine processed the
\* inputs and found no violation; n >= 1 violations give one aggregate with
\* the n messages in the engine's order; an engine failure is returned as it
\* is, with nothing aggregated.
C3_ErrorAggregation ==
  op = "ValidateVariables" =>
    /\ ret = NilError <=> (engine.err = "" /\ engine.errors = <<>>)
    /\ engine.err = "" /\ Len(engine.errors) >= 1 =>
         /\ ret.err = "multierror"
         /\ Len(ret.msgs) = Len(engine.errors)
         /\ \A i \in 1..Len(ret.msgs) :
              ret.msgs[i] = ResultErrorString(engine.errors[i])
    /\ engine.err # "" => ret = [err |-> engine.err, msgs |-> <<>>]

\* the engine found two violations and both are in the aggregate
C3_Witness ==
  /\ op = "ValidateVariables"
  /\ engine.err = "" /\ Len(engine.errors) = 2
  /\ engine.errors[1] # engine.errors[2]
  /\ ret.err = "multierror" /\ Len(ret.msgs) = 2

\* C4: the document has a required key exactly when some descriptor is
\* Required, and then it lists the FieldNames of the Required descriptors,
\* each once; no descriptors give empty properties and no required key.
C4_RequiredList ==
  op = "CreateJsonSchema" =>
    LET names == {variables[i].FieldName :
                    i \in {j \in 1..Len(variables) : variables[j].Required}}
    IN /\ "required" \in DOMAIN doc <=> \E i \in 1..Len(variables) : variables[i].Required
       /\ "required" \in DOMAIN doc =>
            /\ {doc["required"][i] : i \in 1..Len(doc["required"])} = names
            /\ Len(doc["required"]) = Cardinality(names)
       /\ variables = <<>> =>
            DOMAIN doc["properties"] = {} /\ "required" \notin DOMAIN doc

\* two Required descriptors share the field name "a": required is exactly
\* <<"a">>
C4_Witness ==
  /\ op = "CreateJsonSchema"
  /\ \E i, j \in 1..Len(variables) :
       /\ i # j
       /\ variables[i].FieldName = <<97>> /\ variables[i].Required
       /\ variables[j].FieldName = <<97>> /\ variables[j].Required
  /\ doc["required"] = <<<<97>>>>

\* keys that are no descriptor's FieldName, and values to store under them
ExtraKeys == {<<120>>, <<121>>}
ExtraValues == {Nil, IntVal(0), StrVal(<<120>>)}

\* C9: the document has no top-level key besides $schema, type, properties
\* and required, and a payload that validates still validates with a key
\* added that is no descriptor's FieldName.
C9_OpenSchema ==
  /\ op = "CreateJsonSchema" =>
       DOMAIN doc \subseteq {"$schema", "type", "properties", "required"}
  /\ op = "ValidateVariables" /\ ret = NilError =>
       \A key \in ExtraKeys \ DOMAIN parameters, value \in ExtraValues,
          keyOrders \in KeyOrders(variables) :
         ValidateVariables((key :> value) @@ parameters, variables, keyOrders)
           = NilError

\* a payload with the undeclared key "x" validated against two descriptors
C9_Witness ==
  /\ op = "ValidateVariables" /\ ret = NilError
  /\ Len(variables) = 2
  /\ <<120>> \in DOMAIN parameters
  /\ \A i \in 1..Len(variables) : variables[i].FieldName # <<120>>

\* C10: a second ApplyDefaults with the same descriptors leaves the payload
\* as the first left it.
C10_Idempotent ==
  op = "ApplyDefaults" /\ applied >= 2 => parameters = before

\* two descriptors give the absent field "a" different defaults; the first
\* one's default is still there after the second call
C10_Witness ==
  /\ op = "ApplyDefaults" /\ applied = 2
  /\ Len(variables) = 2
  /\ variables[1].FieldName = <<97>> /\ variables[2].FieldName = <<97>>
  /\ variables[1].Default = IntVal(10) /\ variables[2].Default = StrVal(<<120>>)
  /\ parameters[<<97>>] = IntVal(10)


====
